---- MODULE Spec2Model ----
(***************************************************************************)
(* Model of examples/arc_ball_camera/main.rs: the render-graph rebuild     *)
(* policy (ExampleGraph) and the scroll-driven camera distance system      *)
(* (CameraDistanceSystem).                                                 *)
(*                                                                         *)
(* An Option<T> is a sequence of length at most one: None is <<>> and      *)
(* Some(x) is <<x>>.                                                       *)
(***************************************************************************)
EXTENDS Integers, Sequences, FiniteSets

VARIABLES
    last_dimensions,  \* ExampleGraph.last_dimensions : Option<ScreenDimensions>
    surface_format,   \* ExampleGraph.surface_format  : Option<Format>
    dirty,            \* ExampleGraph.dirty           : bool
    checks,           \* history: one record per call of rebuild (what it read, what it returned)
    dropped,          \* history: checks no longer holds every call of rebuild
    pending,          \* the last call of rebuild returned true and builder has not run since
    builds,           \* history: number of calls of builder
    queries,          \* history: number of calls of factory.get_surface_format
    color_format,     \* the format builder gave the colour image of the last graph it built
    channel,          \* EventChannel<InputEvent>: the events published so far, oldest first
    event_reader,     \* CameraDistanceSystem.event_reader : Option<ReaderId>, a position in channel
    other_reader,     \* the position of another system's ReaderId on the same channel
    transforms,       \* ReadStorage<Transform>: the entities that have a Transform
    tags,             \* WriteStorage<ArcBallControlTag>: entity -> distance
    tags0,            \* history: tags as the world was created
    registered_at,    \* history: the length of channel when setup last registered the reader
    processed,        \* history: the positions in channel of the events run has handled, in order
    drains,           \* history: number of calls of run that handled at least one event
    panicked          \* run has panicked (unwrap of None): the process is gone

graphVars == <<last_dimensions, surface_format, dirty, checks, dropped, pending, builds,
               queries, color_format>>

cameraVars == <<channel, event_reader, other_reader, transforms, tags, tags0,
                registered_at, processed, drains, panicked>>

vars == <<graphVars, cameraVars>>

(***************************************************************************)
(* Bounds of the model.                                                    *)
(***************************************************************************)
MaxChecks == 5
MaxBuilds == 3
MaxEvents == 3

(***************************************************************************)
(* Option<T>.                                                              *)
(***************************************************************************)
None == <<>>

Some(x) == <<x>>

(***************************************************************************)
(* The values res.try_fetch::<ScreenDimensions>() can give: the resource   *)
(* is absent, or holds the window's dimensions.                            *)
(***************************************************************************)
ScreenDimensions == {<<800, 600>>, <<1024, 768>>}

TryFetchDimensions == {None} \cup {Some(d) : d \in ScreenDimensions}

(***************************************************************************)
(* The values factory.get_surface_format(&surface) can give.               *)
(***************************************************************************)
Format == {"Bgra8Srgb", "Rgba8Unorm"}

(***************************************************************************)
(* ExampleGraph::new                                                       *)
(***************************************************************************)
GraphNew ==
    /\ last_dimensions = None
    /\ surface_format = None
    /\ dirty = TRUE
    /\ checks = <<>>
    /\ dropped = FALSE
    /\ pending = FALSE
    /\ builds = 0
    /\ queries = 0
    /\ color_format = None

(***************************************************************************)
(* The history of rebuild checks keeps the MaxChecks most recent records;  *)
(* dropped says that older ones have been discarded.                       *)
(***************************************************************************)
Push(h, r) == IF Len(h) < MaxChecks THEN Append(h, r) ELSE Append(Tail(h), r)

(***************************************************************************)
(* ExampleGraph::rebuild, reading new_dimensions from the resources.       *)
(*   if self.last_dimensions.as_ref() != new_dimensions... {               *)
(*       self.dirty = true; self.last_dimensions = ...; return false; }    *)
(*   return self.dirty;                                                    *)
(***************************************************************************)
DimensionsChangedOrUnavailable(last, new_dimensions) ==
    last = None \/ new_dimensions = None \/ last # new_dimensions

DimensionsChangedBothAvailable(last, new_dimensions) ==
    last # None /\ new_dimensions # None /\ last # new_dimensions

DimensionsChanged(last, new_dimensions) == last # new_dimensions

RebuildDirtyConsumed(changed, d) == changed

RebuildDirtyKept(changed, d) == d

RebuildDirtyAlways(changed, d) == TRUE

RebuildDirty(changed, d) == IF changed THEN TRUE ELSE d

RebuildReturnUnchanged(changed, d) == ~changed

RebuildReturn(changed, d) == IF changed THEN FALSE ELSE d

rebuildKeepsFirst(new_dimensions) ==
    LET changed == DimensionsChanged(last_dimensions, new_dimensions)
        ret     == RebuildReturn(changed, dirty')
    IN  /\ dirty' = RebuildDirty(changed, dirty)
        /\ last_dimensions' = IF changed /\ last_dimensions = None
                                THEN new_dimensions ELSE last_dimensions
        /\ checks' = Push(checks, [read |-> new_dimensions, last |-> last_dimensions,
                                   was_dirty |-> dirty, ret |-> ret])
        /\ dropped' = (dropped \/ Len(checks) = MaxChecks)
        /\ pending' = ret
        /\ UNCHANGED <<surface_format, builds, queries, color_format>>
        /\ UNCHANGED cameraVars

rebuild(new_dimensions) ==
    LET changed == DimensionsChanged(last_dimensions, new_dimensions)
        ret     == RebuildReturn(changed, dirty')
    IN  /\ dirty' = RebuildDirty(changed, dirty)
        /\ last_dimensions' = IF changed THEN new_dimensions ELSE last_dimensions
        /\ checks' = Push(checks, [read      |-> new_dimensions,
                                   last      |-> last_dimensions,
                                   was_dirty |-> dirty,
                                   ret       |-> ret])
        /\ dropped' = (dropped \/ Len(checks) = MaxChecks)
        /\ pending' = ret
        /\ UNCHANGED <<surface_format, builds, queries, color_format>>
        /\ UNCHANGED cameraVars

(***************************************************************************)
(* ExampleGraph::builder, with fmt the answer the factory would give to    *)
(* get_surface_format. Option::get_or_insert_with asks only when the cache *)
(* is empty. builds counts the constructions up to MaxBuilds.              *)
(***************************************************************************)
CountBuild(n) == IF n < MaxBuilds THEN n + 1 ELSE n

builderForgetsDimensions(fmt) ==
    /\ dirty' = FALSE
    /\ IF surface_format = None
       THEN /\ surface_format' = Some(fmt)
            /\ queries' = queries + 1
       ELSE UNCHANGED <<surface_format, queries>>
    /\ color_format' = surface_format'
    /\ builds' = CountBuild(builds)
    /\ pending' = FALSE
    /\ last_dimensions' = None
    /\ UNCHANGED <<checks, dropped>>
    /\ UNCHANGED cameraVars

builderKeepsDirty(fmt) ==
    /\ IF surface_format = None
       THEN /\ surface_format' = Some(fmt)
            /\ queries' = queries + 1
       ELSE UNCHANGED <<surface_format, queries>>
    /\ color_format' = surface_format'
    /\ builds' = CountBuild(builds)
    /\ pending' = FALSE
    /\ UNCHANGED <<dirty, last_dimensions, checks, dropped>>
    /\ UNCHANGED cameraVars

builderRequery(fmt) ==
    /\ dirty' = FALSE
    /\ surface_format' = Some(fmt)
    /\ queries' = queries + 1
    /\ color_format' = surface_format'
    /\ builds' = CountBuild(builds)
    /\ pending' = FALSE
    /\ UNCHANGED <<last_dimensions, checks, dropped>>
    /\ UNCHANGED cameraVars

builder(fmt) ==
    /\ dirty' = FALSE
    /\ IF surface_format = None
       THEN /\ surface_format' = Some(fmt)
            /\ queries' = queries + 1
       ELSE UNCHANGED <<surface_format, queries>>
    /\ color_format' = surface_format'
    /\ builds' = CountBuild(builds)
    /\ pending' = FALSE
    /\ UNCHANGED <<last_dimensions, checks, dropped>>
    /\ UNCHANGED cameraVars

(***************************************************************************)
(* Float: amethyst_core's wrapper of f32 (IEEE 754 binary32). A value is   *)
(* [neg, m, e], standing for (-1)^neg * m * 2^e, with 24 bits of mantissa; *)
(* m >= 2^23 unless the value is subnormal (e = MinExp) or zero; infinity  *)
(* is m = 0 with e = InfExp.                                               *)
(***************************************************************************)
Limb == 2 ^ 12

Hidden == 2 ^ 23

Mantissa == 2 ^ 24

MinExp == 0 - 149

MaxExp == 104

InfExp == MaxExp + 1

Max(a, b) == IF a >= b THEN a ELSE b

RoundTowardZero(q, r, half) == q

(***************************************************************************)
(* Round to nearest, ties to even: q plus a remainder r out of 2 * half.   *)
(***************************************************************************)
RoundNearestEven(q, r, half) ==
    IF r > half \/ (r = half /\ q % 2 = 1) THEN q + 1 ELSE q

(***************************************************************************)
(* A rounded mantissa q at exponent e, as a Float.                         *)
(***************************************************************************)
Pack(neg, q, e) ==
    LET m  == IF q = Mantissa THEN Hidden ELSE q
        e1 == IF q = Mantissa THEN e + 1 ELSE e
    IN  IF e1 > MaxExp
        THEN [neg |-> neg, m |-> 0, e |-> InfExp]
        ELSE [neg |-> neg, m |-> m, e |-> e1]

(***************************************************************************)
(* Float::from(num / den) for a decimal literal num / den in [1/2, 2):     *)
(* the nearest f32.                                                        *)
(***************************************************************************)
FloatFrom(num, den) ==
    LET sh == IF num >= den THEN 23 ELSE 24
        n  == num * (2 ^ sh)
        q  == n \div den
        r  == n % den
    IN  Pack(FALSE, IF 2 * r > den \/ (2 * r = den /\ q % 2 = 1) THEN q + 1 ELSE q, 0 - sh)

(***************************************************************************)
(* x * c in f32, c positive, finite and normal. The 48-bit product of the  *)
(* mantissas is H * 2^24 + L, computed in 12-bit limbs.                    *)
(***************************************************************************)
FMul(x, c) ==
    IF x.e = InfExp \/ x.m = 0 THEN x
    ELSE
    LET a1   == x.m \div Limb
        a0   == x.m % Limb
        b1   == c.m \div Limb
        b0   == c.m % Limb
        mid  == a1 * b0 + a0 * b1
        low  == (mid % Limb) * Limb + a0 * b0
        H    == a1 * b1 + mid \div Limb + low \div Mantissa
        L    == low % Mantissa
        ex   == x.e + c.e
        norm == IF H >= Hidden THEN 24 ELSE IF H >= Hidden \div 2 THEN 23 ELSE 0
        sh   == Max(norm, MinExp - ex)
        q    == IF sh = 24 THEN H ELSE 2 * H + L \div Hidden
        r    == IF sh = 24 THEN L ELSE L % Hidden
        half == IF sh = 24 THEN Hidden ELSE Hidden \div 2
    IN  Pack(x.neg, RoundNearestEven(q, r, half), ex + sh)

(***************************************************************************)
(* InputEvent: the mouse wheel moved in some direction, or another variant *)
(* (a key press stands for all of them).                                   *)
(***************************************************************************)
ScrollDirection == {"ScrollUp", "ScrollDown", "ScrollLeft"}

MouseWheelMoved(direction) == [variant |-> "MouseWheelMoved", direction |-> direction]

KeyPressed == [variant |-> "KeyPressed", direction |-> "none"]

InputEvent == {MouseWheelMoved(d) : d \in ScrollDirection} \cup {KeyPressed}

(***************************************************************************)
(* The world the prefab creates: entities 1 and 2 carry an                 *)
(* ArcBallControlTag, and some entities carry a Transform.                 *)
(***************************************************************************)
Entity == {1, 2, 3}

Tagged == {1, 2}

TransformLayout == {{1, 3}, {1, 2, 3}, {3}}

One == [neg |-> FALSE, m |-> Hidden, e |-> 0 - 23]

Ten == [neg |-> FALSE, m |-> 10 * (2 ^ 20), e |-> 0 - 20]

InitialDistances == {<<One, Ten>>, <<Ten, One>>}

(***************************************************************************)
(* CameraDistanceSystem::new, before setup, in a world just created.       *)
(***************************************************************************)
CameraNew(layout, distances) ==
    /\ channel = <<>>
    /\ event_reader = None
    /\ other_reader = 0
    /\ transforms = layout
    /\ tags = distances
    /\ tags0 = distances
    /\ registered_at = 0
    /\ processed = <<>>
    /\ drains = 0
    /\ panicked = FALSE

(***************************************************************************)
(* (&transforms, &mut tags).join(): the entities that have both.           *)
(***************************************************************************)
JoinTagsOnly(trs, tgs) == DOMAIN tgs

Join(trs, tgs) == trs \cap DOMAIN tgs

ScaleAll(trs, tgs, factor) ==
    [en \in DOMAIN tgs |-> IF en \in Join(trs, tgs) THEN FMul(tgs[en], factor) ELSE tgs[en]]

(***************************************************************************)
(* One pass of the loop body of run: match *event { ... }.                 *)
(***************************************************************************)
ScrollDownInvertsUp == FloatFrom(10, 9)

ScrollUpFactor == FloatFrom(9, 10)

ScrollDownFactor == FloatFrom(11, 10)

HandleEventSwapped(event, trs, tgs) ==
    IF event.variant = "MouseWheelMoved"
    THEN IF event.direction = "ScrollUp" THEN ScaleAll(trs, tgs, ScrollDownFactor)
         ELSE IF event.direction = "ScrollDown" THEN ScaleAll(trs, tgs, ScrollUpFactor)
         ELSE tgs
    ELSE tgs

HandleEventAnyScroll(event, trs, tgs) ==
    IF event.variant = "MouseWheelMoved"
    THEN IF event.direction = "ScrollUp" THEN ScaleAll(trs, tgs, ScrollUpFactor)
         ELSE ScaleAll(trs, tgs, ScrollDownFactor)
    ELSE tgs

HandleEvent(event, trs, tgs) ==
    IF event.variant = "MouseWheelMoved"
    THEN IF event.direction = "ScrollUp" THEN ScaleAll(trs, tgs, ScrollUpFactor)
         ELSE IF event.direction = "ScrollDown" THEN ScaleAll(trs, tgs, ScrollDownFactor)
         ELSE tgs
    ELSE tgs

RECURSIVE HandleAllCoalesced(_, _, _)
HandleAllCoalesced(events, trs, tgs) ==
    IF events = <<>> THEN tgs
    ELSE IF Len(events) >= 2 /\ events[1] = events[2]
         THEN HandleAllCoalesced(Tail(events), trs, tgs)
         ELSE HandleAllCoalesced(Tail(events), trs, HandleEvent(Head(events), trs, tgs))

RECURSIVE HandleAll(_, _, _)
HandleAll(events, trs, tgs) ==
    IF events = <<>> THEN tgs
    ELSE HandleAll(Tail(events), trs, HandleEvent(Head(events), trs, tgs))

(***************************************************************************)
(* EventChannel::read(&mut reader): the events from the reader's position  *)
(* to the end of the channel, and the reader moves to the end.             *)
(***************************************************************************)
ReadFromStart(position) == channel

ReadFrom(position) == SubSeq(channel, position + 1, Len(channel))

ReaderNotAdvanced(position) == position

ReaderAfterRead(position) == Len(channel)

(***************************************************************************)
(* CameraDistanceSystem::setup: register a reader at the channel's end.    *)
(***************************************************************************)
setup ==
    /\ ~panicked
    /\ event_reader' = Some(Len(channel))
    /\ registered_at' = Len(channel)
    /\ UNCHANGED <<channel, other_reader, transforms, tags, tags0, processed, drains,
                   panicked>>
    /\ UNCHANGED graphVars

(***************************************************************************)
(* CameraDistanceSystem::run. self.event_reader.as_mut().unwrap() panics   *)
(* when setup has not run; otherwise every pending event is handled.       *)
(***************************************************************************)
runRegistersLazily ==
    /\ ~panicked
    /\ LET position == IF event_reader = None THEN 0 ELSE event_reader[1]
           events   == ReadFrom(position)
       IN  /\ tags' = HandleAll(events, transforms, tags)
           /\ event_reader' = Some(ReaderAfterRead(position))
           /\ processed' = processed \o
                  [i \in 1..Len(events) |-> position + i]
           /\ drains' = IF events = <<>> THEN drains ELSE drains + 1
           /\ UNCHANGED panicked
    /\ UNCHANGED <<channel, other_reader, transforms, tags0, registered_at>>
    /\ UNCHANGED graphVars

run ==
    /\ ~panicked
    /\ IF event_reader = None
       THEN /\ panicked' = TRUE
            /\ UNCHANGED <<event_reader, tags, processed, drains>>
       ELSE LET position == event_reader[1]
                events   == ReadFrom(position)
            IN  /\ tags' = HandleAll(events, transforms, tags)
                /\ event_reader' = Some(ReaderAfterRead(position))
                /\ processed' = processed \o
                       [i \in 1..Len(events) |-> position + i]
                /\ drains' = IF events = <<>> THEN drains ELSE drains + 1
                /\ UNCHANGED panicked
    /\ UNCHANGED <<channel, other_reader, transforms, tags0, registered_at>>
    /\ UNCHANGED graphVars

(***************************************************************************)
(* The input system publishes an event: EventChannel::single_write.        *)
(***************************************************************************)
publish(event) ==
    /\ ~panicked
    /\ Len(channel) < MaxEvents
    /\ channel' = Append(channel, event)
    /\ UNCHANGED <<event_reader, other_reader, transforms, tags, tags0, registered_at,
                   processed, drains, panicked>>
    /\ UNCHANGED graphVars

(***************************************************************************)
(* Another system reads the channel with its own reader.                   *)
(***************************************************************************)
other_read ==
    /\ ~panicked
    /\ other_reader < Len(channel)
    /\ other_reader' = Len(channel)
    /\ UNCHANGED <<channel, event_reader, transforms, tags, tags0, registered_at,
                   processed, drains, panicked>>
    /\ UNCHANGED graphVars

(***************************************************************************)
(* The render-graph policy alone: any order of calls on one instance.      *)
(***************************************************************************)
World == CameraNew({1, 3}, [en \in Tagged |-> One])

Init == GraphNew /\ World

Next ==
    \/ \E nd \in TryFetchDimensions : rebuild(nd)
    \/ \E fmt \in Format : builder(fmt)

Spec == Init /\ [][Next]_vars

(***************************************************************************)
(* The calls in the order the spec gives them: one rebuild check per       *)
(* frame, and graph construction exactly when the check reported rebuild.  *)
(***************************************************************************)
FrameCheck(nd) == ~pending /\ rebuild(nd)

FrameBuild(fmt) == pending /\ builder(fmt)

NextFrame ==
    \/ \E nd \in TryFetchDimensions : FrameCheck(nd)
    \/ \E fmt \in Format : FrameBuild(fmt)

SpecFrame == Init /\ [][NextFrame]_vars

(***************************************************************************)
(* The same, with the render loop running frame after frame: a check that  *)
(* is due is eventually made, a construction that is due eventually runs.  *)
(***************************************************************************)
SpecFrameLive ==
    /\ SpecFrame
    /\ WF_vars(\E nd \in TryFetchDimensions : FrameCheck(nd))
    /\ WF_vars(\E fmt \in Format : FrameBuild(fmt))

(***************************************************************************)
(* The camera distance system alone, in any world of the layouts above:    *)
(* events are published, the system is set up and run, and another system  *)
(* reads the same channel, in any order.                                   *)
(***************************************************************************)
InitCamera ==
    /\ GraphNew
    /\ \E layout \in TransformLayout :
           \E distances \in InitialDistances :
               CameraNew(layout, [en \in Tagged |-> distances[en]])

NextCamera ==
    \/ \E event \in InputEvent : publish(event)
    \/ setup
    \/ run
    \/ other_read

SpecCamera == InitCamera /\ [][NextCamera]_vars

(***************************************************************************)
(* The same system over distances at the edges of the f32 range: the       *)
(* smallest positive value, a small subnormal and the largest finite one.  *)
(***************************************************************************)
MinPositive == [neg |-> FALSE, m |-> 1, e |-> MinExp]

SmallSubnormal == [neg |-> FALSE, m |-> 6, e |-> MinExp]

MaxFinite == [neg |-> FALSE, m |-> Mantissa - 1, e |-> MaxExp]

ExtremeDistances == {<<SmallSubnormal, MaxFinite>>, <<MaxFinite, MinPositive>>}

InitExtreme ==
    /\ GraphNew
    /\ \E layout \in TransformLayout :
           \E distances \in ExtremeDistances :
               CameraNew(layout, [en \in Tagged |-> distances[en]])

SpecExtreme == InitExtreme /\ [][NextCamera]_vars

(***************************************************************************)
(* Reading the history of rebuild checks.                                  *)
(***************************************************************************)
Reads == [i \in 1..Len(checks) |-> checks[i].read]

Reported == [i \in 1..Len(checks) |-> checks[i].ret]

LastCheck == checks[Len(checks)]

Scenario ==
    <<None, Some(<<800, 600>>), Some(<<800, 600>>), Some(<<1024, 768>>), Some(<<1024, 768>>)>>

ScenarioChecked ==
    /\ ~dropped
    /\ Len(checks) >= Len(Scenario)
    /\ SubSeq(Reads, 1, Len(Scenario)) = Scenario

(***************************************************************************)
(* C1 as stated: from a new policy, with the graph built after every check *)
(* that reports rebuild, the checks reading [unavailable, 800x600,         *)
(* 800x600, 1024x768, 1024x768] report [false, false, true, false, true].  *)
(***************************************************************************)
C1_Original ==
    ScenarioChecked =>
        SubSeq(Reported, 1, Len(Scenario)) = <<FALSE, FALSE, TRUE, FALSE, TRUE>>

(***************************************************************************)
(* C1 amended: those five checks report [true, false, true, false, true]:  *)
(* the first check reads unavailable dimensions while none were observed   *)
(* before, which is no change, and the new policy is dirty.                *)
(***************************************************************************)
C1_Scenario ==
    ScenarioChecked =>
        SubSeq(Reported, 1, Len(Scenario)) = <<TRUE, FALSE, TRUE, FALSE, TRUE>>

C1_Witness == ScenarioChecked /\ Len(checks) = Len(Scenario) /\ ~pending /\ builds >= 3

(***************************************************************************)
(* C2: with the graph built after every check that reports rebuild, among  *)
(* consecutive checks that all read the same dimensions at most one        *)
(* reports rebuild, and none after it does: two reports are separated by a *)
(* check that read other dimensions.                                       *)
(***************************************************************************)
SameRun(i, j) == \A k \in i..j : checks[k].read = checks[i].read

C2_OncePerRun ==
    \A i, j \in 1..Len(checks) :
        (i < j /\ SameRun(i, j) /\ checks[i].ret) => ~checks[j].ret

C2_Witness ==
    /\ Len(checks) >= 4
    /\ SameRun(1, 4)
    /\ checks[1].read # None
    /\ ~checks[1].ret /\ checks[2].ret /\ ~checks[3].ret /\ ~checks[4].ret

(***************************************************************************)
(* C3: a check that reads dimensions other than the last observed ones     *)
(* (available or not, either way round) reports no rebuild, leaves the     *)
(* policy dirty and records what it read, whether the policy was dirty or  *)
(* not before.                                                             *)
(***************************************************************************)
CheckStep == checks' # checks

C3_ChangeDefers ==
    [][(CheckStep /\ LastCheck'.read # last_dimensions) =>
          /\ LastCheck'.ret = FALSE
          /\ dirty' = TRUE
          /\ last_dimensions' = LastCheck'.read]_vars

C3_Witness ==
    /\ Len(checks) >= 2
    /\ \E i, j \in 1..Len(checks) - 1 :
          /\ checks[i].read # checks[i].last /\ checks[i].was_dirty
          /\ checks[i].read # None /\ checks[i].last = None
          /\ checks[j].read # checks[j].last /\ checks[j].was_dirty
          /\ checks[j].read # None /\ checks[j].last # None
    /\ LastCheck.read # LastCheck.last /\ ~LastCheck.was_dirty
    /\ LastCheck.read = None
    /\ dirty /\ last_dimensions = None /\ ~LastCheck.ret

(***************************************************************************)
(* C4: a check that reads the last observed dimensions reports rebuild     *)
(* exactly when the policy is dirty at that moment.                        *)
(***************************************************************************)
C4_UnchangedReportsDirty ==
    [][(CheckStep /\ LastCheck'.read = last_dimensions) =>
          LastCheck'.ret = dirty]_vars

C4_Witness ==
    \E i, j \in 1..Len(checks) :
        /\ checks[i].read = checks[i].last /\ checks[i].was_dirty /\ checks[i].ret
        /\ checks[j].read = checks[j].last /\ ~checks[j].was_dirty /\ ~checks[j].ret

Settles(i) ==
    /\ checks[i - 1].read # checks[i - 1].last
    /\ checks[i].read = checks[i - 1].read

C6_SettleThenRebuild ==
    \A i \in 1..Len(checks) :
        /\ (i > 1 /\ Settles(i)) => checks[i].ret
        /\ checks[i].read # checks[i].last => ~checks[i].ret

LastRead(d) == Len(checks) > 0 /\ LastCheck.read = d

C6_EventuallyRebuilt ==
    \A d \in TryFetchDimensions :
        <>[]LastRead(d) => <>(LastRead(d) /\ LastCheck.ret /\ []LastRead(d))

C7_QueriedOnce ==
    /\ queries <= 1
    /\ (queries = 1) = (builds >= 1)
    /\ (builds >= 1) = (surface_format # None)

C7_CacheKept ==
    [][surface_format # None =>
          /\ surface_format' = surface_format
          /\ queries' = queries
          /\ (builds' # builds => color_format' = surface_format)]_vars

C7_FormatQueriedOnce == []C7_QueriedOnce /\ C7_CacheKept

C7_Witness ==
    /\ builds >= 3
    /\ queries = 1
    /\ color_format = surface_format
    /\ Len(checks) >= 2

(***************************************************************************)
(* Natural numbers of any size, as sequences of 12-bit digits, least       *)
(* significant first: the exact values the claims about distances compare. *)
(***************************************************************************)
RECURSIVE BigFromNat(_)
BigFromNat(x) == IF x = 0 THEN <<>> ELSE <<x % Limb>> \o BigFromNat(x \div Limb)

RECURSIVE BigTimes(_, _, _)
BigTimes(a, k, carry) ==
    IF a = <<>> THEN BigFromNat(carry)
    ELSE LET t == Head(a) * k + carry
         IN  <<t % Limb>> \o BigTimes(Tail(a), k, t \div Limb)

RECURSIVE BigTimesPower(_, _, _)
BigTimesPower(a, k, n) == IF n = 0 THEN a ELSE BigTimesPower(BigTimes(a, k, 0), k, n - 1)

RECURSIVE BigShift(_, _)
BigShift(a, s) ==
    IF s >= 12 THEN <<0>> \o BigShift(a, s - 12) ELSE BigTimes(a, 2 ^ s, 0)

RECURSIVE BigAdd(_, _, _)
BigAdd(a, b, carry) ==
    IF a = <<>> /\ b = <<>> THEN BigFromNat(carry)
    ELSE LET t == (IF a = <<>> THEN 0 ELSE Head(a)) + (IF b = <<>> THEN 0 ELSE Head(b)) + carry
         IN  <<t % Limb>> \o BigAdd(IF a = <<>> THEN a ELSE Tail(a),
                                    IF b = <<>> THEN b ELSE Tail(b), t \div Limb)

RECURSIVE BigCompare(_, _)
BigCompare(a, b) ==
    IF a = <<>> /\ b = <<>> THEN 0
    ELSE LET ha   == IF a = <<>> THEN 0 ELSE Head(a)
             hb   == IF b = <<>> THEN 0 ELSE Head(b)
             rest == BigCompare(IF a = <<>> THEN a ELSE Tail(a),
                                IF b = <<>> THEN b ELSE Tail(b))
         IN  IF rest # 0 THEN rest ELSE IF ha < hb THEN 0 - 1 ELSE IF ha > hb THEN 1 ELSE 0

Min(a, b) == IF a <= b THEN a ELSE b

(***************************************************************************)
(* x against d * (9/10)^ups * (11/10)^downs, both finite and of the same   *)
(* sign. With n = ups + downs and s the smaller exponent:                  *)
(*   Scaled(x)   = |x| * 10^n / 2^s                                         *)
(*   Ideal(d)    = |d| * 9^ups * 11^downs / 2^s                             *)
(***************************************************************************)
Scaled(x, d, n) ==
    BigTimesPower(BigShift(BigFromNat(x.m), x.e - Min(x.e, d.e)), 10, n)

Ideal(x, d, ups, downs) ==
    BigTimesPower(
        BigTimesPower(BigShift(BigFromNat(d.m), d.e - Min(x.e, d.e)), 9, ups),
        11, downs)

ExactlyScaled(x, d, ups, downs) ==
    /\ x.neg = d.neg
    /\ x.e # InfExp
    /\ BigCompare(Scaled(x, d, ups + downs), Ideal(x, d, ups, downs)) = 0

(***************************************************************************)
(* |x - ideal| <= n * 2^-23 * |ideal|: one unit in the last place of an    *)
(* f32 for each of the n multiplications.                                  *)
(***************************************************************************)
WithinTolerance(x, d, ups, downs) ==
    LET n      == ups + downs
        scaled == BigShift(Scaled(x, d, n), 23)
        ideal  == Ideal(x, d, ups, downs)
        centre == BigShift(ideal, 23)
        slack  == BigTimes(ideal, n, 0)
    IN  /\ x.neg = d.neg
        /\ x.e # InfExp
        /\ BigCompare(centre, BigAdd(scaled, slack, 0)) <= 0
        /\ BigCompare(scaled, BigAdd(centre, slack, 0)) <= 0

RECURSIVE FMulTimes(_, _, _)
FMulTimes(x, c, n) == IF n = 0 THEN x ELSE FMulTimes(FMul(x, c), c, n - 1)

(***************************************************************************)
(* Reading the history of the camera distance system.                      *)
(***************************************************************************)
ProcessedEvents == [i \in 1..Len(processed) |-> channel[processed[i]]]

ScrollUp == MouseWheelMoved("ScrollUp")

ScrollDown == MouseWheelMoved("ScrollDown")

Only(event) == \A i \in 1..Len(processed) : ProcessedEvents[i] = event

Orbiting == Join(transforms, tags0)

(***************************************************************************)
(* C8 as stated: for every entity with a Transform and a tag of initial    *)
(* distance d, after n scroll-up events and nothing else the distance is   *)
(* exactly d * 0.9^n, after n scroll-down events exactly d * 1.1^n.        *)
(***************************************************************************)
C8_Original ==
    \A en \in Orbiting :
        /\ Only(ScrollUp) => ExactlyScaled(tags[en], tags0[en], Len(processed), 0)
        /\ Only(ScrollDown) => ExactlyScaled(tags[en], tags0[en], 0, Len(processed))

(***************************************************************************)
(* C8 amended: after n scroll-up events and nothing else the distance is   *)
(* d multiplied n times, each product rounded to the nearest f32, by the   *)
(* f32 nearest 0.9, which is within n * 2^-23 (relative) of d * 0.9^n;     *)
(* likewise for scroll-down and 1.1; however the events were split across  *)
(* invocations.                                                            *)
(***************************************************************************)
C8_ScaledWithinTolerance ==
    \A en \in Orbiting :
        /\ Only(ScrollUp) =>
              /\ tags[en] = FMulTimes(tags0[en], FloatFrom(9, 10), Len(processed))
              /\ WithinTolerance(tags[en], tags0[en], Len(processed), 0)
        /\ Only(ScrollDown) =>
              /\ tags[en] = FMulTimes(tags0[en], FloatFrom(11, 10), Len(processed))
              /\ WithinTolerance(tags[en], tags0[en], 0, Len(processed))

C8_Witness ==
    /\ Orbiting = {1, 2}
    /\ Len(processed) >= 3
    /\ Only(ScrollUp)
    /\ drains >= 2
    /\ \A en \in Orbiting : ~ExactlyScaled(tags[en], tags0[en], Len(processed), 0)

(***************************************************************************)
(* C9: an event that is neither a scroll-up nor a scroll-down (another     *)
(* variant, or a scroll in another direction) changes no distance when it  *)
(* is handled: a call of run that handles only such events leaves every    *)
(* distance as it was, and the distances are always what the scroll-up and *)
(* scroll-down events handled so far alone would have given.               *)
(***************************************************************************)
Scales(event) == event \in {ScrollUp, ScrollDown}

ScalingEvents == SelectSeq(ProcessedEvents, Scales)

C9_OthersIgnored == tags = HandleAll(ScalingEvents, transforms, tags0)

C9_OthersLeaveDistances ==
    [][(processed' # processed /\
        \A i \in Len(processed) + 1..Len(processed') : ~Scales(ProcessedEvents'[i]))
          => tags' = tags]_vars

C9_NonScrollIgnored == []C9_OthersIgnored /\ C9_OthersLeaveDistances

C9_Witness ==
    /\ Orbiting # {}
    /\ Len(processed) >= 3
    /\ \E i, j, k \in 1..Len(processed) :
          /\ ProcessedEvents[i] = KeyPressed
          /\ ProcessedEvents[j] = MouseWheelMoved("ScrollLeft")
          /\ Scales(ProcessedEvents[k])
    /\ tags # tags0

(***************************************************************************)
(* C10: whatever the order of publications, calls of run and reads by      *)
(* another system, run handles each event published since its reader was   *)
(* registered exactly once: a call of run leaves none of them unread, none *)
(* is handled twice, they are what made the distances, and a read by the   *)
(* other system leaves the reader of this one where it was.                *)
(***************************************************************************)
C10_HandledOnce ==
    /\ \A i, j \in 1..Len(processed) : i < j => processed[i] < processed[j]
    /\ event_reader # None =>
          /\ registered_at <= event_reader[1] /\ event_reader[1] <= Len(channel)
          /\ \A at \in registered_at + 1..event_reader[1] :
                 \E i \in 1..Len(processed) : processed[i] = at
          /\ \A i \in 1..Len(processed) : processed[i] <= event_reader[1]
    /\ tags = HandleAll(ProcessedEvents, transforms, tags0)

C10_CursorMoves ==
    [][/\ processed' # processed =>
             /\ event_reader # None
             /\ event_reader' = Some(Len(channel))
             /\ processed' = processed \o
                    [i \in 1..Len(channel) - event_reader[1] |-> event_reader[1] + i]
       /\ tags' # tags => processed' # processed
       /\ other_reader' # other_reader => UNCHANGED <<event_reader, processed, tags>>]_vars

C10_ExactlyOnce == []C10_HandledOnce /\ C10_CursorMoves

C10_Witness ==
    /\ registered_at >= 1
    /\ Len(processed) >= 2
    /\ drains >= 2
    /\ event_reader = Some(Len(channel))
    /\ other_reader # event_reader[1]
    /\ other_reader > 0
    /\ tags # tags0

(***************************************************************************)
(* What a call of run would make of the distances and of the reader, from  *)
(* a reader at position and distances tgs.                                 *)
(***************************************************************************)
TagsAfterRun(position, tgs) == HandleAll(ReadFrom(position), transforms, tgs)

NothingPending == event_reader # None /\ event_reader[1] = Len(channel)

(***************************************************************************)
(* C11: a call of run when nothing was published since the call before it  *)
(* changes no distance: a call that handled events leaves nothing pending, *)
(* a call with nothing pending changes no distance, and two calls in a row *)
(* give the distances and the reader that one call gives.                  *)
(***************************************************************************)
C11_TwiceIsOnce ==
    event_reader # None =>
        LET position == event_reader[1]
            once     == TagsAfterRun(position, tags)
            reader   == ReaderAfterRead(position)
        IN  /\ TagsAfterRun(reader, once) = once
            /\ ReaderAfterRead(reader) = reader

C11_IdleRun ==
    [][/\ processed' # processed => NothingPending'
       /\ (NothingPending /\ run) => UNCHANGED <<tags, event_reader, processed>>]_vars

C11_Idempotent == []C11_TwiceIsOnce /\ C11_IdleRun

C11_Witness ==
    /\ NothingPending
    /\ Len(processed) >= 2
    /\ \E i \in 1..Len(processed) : Scales(ProcessedEvents[i])
    /\ Orbiting # {}
    /\ tags # tags0
    /\ TagsAfterRun(event_reader[1], tags) = tags

(***************************************************************************)
(* One distance multiplied, event after event in the order given, by the   *)
(* f32 nearest 0.9 for a scroll-up and nearest 1.1 for a scroll-down: one  *)
(* rounded multiplication for each such event.                             *)
(***************************************************************************)
RECURSIVE Multiplied(_, _)
Multiplied(x, events) ==
    IF events = <<>> THEN x
    ELSE Multiplied(IF Head(events) = ScrollUp THEN FMul(x, FloatFrom(9, 10))
                    ELSE IF Head(events) = ScrollDown THEN FMul(x, FloatFrom(11, 10))
                    ELSE x,
                    Tail(events))

(***************************************************************************)
(* C12: one call of run handles the pending events in the order of their   *)
(* publication, and k pending scroll events make k multiplications of the  *)
(* distance of every entity that has a Transform and a tag, one after the  *)
(* other in that order: none is merged with another, none is dropped.      *)
(***************************************************************************)
C12_InOrderOneByOne ==
    [][processed' # processed =>
          LET unread == SubSeq(channel, event_reader[1] + 1, Len(channel))
          IN  /\ processed' = processed \o
                     [i \in 1..Len(unread) |-> event_reader[1] + i]
              /\ \A en \in DOMAIN tags :
                     tags'[en] = IF en \in transforms
                                 THEN Multiplied(tags[en], unread)
                                 ELSE tags[en]]_vars

C12_Witness ==
    /\ drains = 1
    /\ Len(processed) >= 3
    /\ ProcessedEvents[1] = ScrollUp
    /\ ProcessedEvents[2] = ScrollUp
    /\ ProcessedEvents[3] = ScrollDown
    /\ Orbiting = {1, 2}
    /\ \A en \in Orbiting : tags[en] = Multiplied(tags0[en], ProcessedEvents)
    /\ \A en \in Orbiting : tags[en] # Multiplied(tags0[en], <<ScrollUp, ScrollDown>>)

(***************************************************************************)
(* C13: the scroll-up and scroll-down events handled so far have scaled    *)
(* the distance of every entity that has a Transform and a tag, each by    *)
(* the same factors, and the distance of an entity whose tag comes without *)
(* a Transform is what it was when the world was created.                  *)
(***************************************************************************)
C13_JoinedScaledOthersKept ==
    \A en \in DOMAIN tags :
        tags[en] = IF en \in transforms
                   THEN Multiplied(tags0[en], ProcessedEvents)
                   ELSE tags0[en]

C13_Witness ==
    /\ transforms = {1, 3}
    /\ \E i, j \in 1..Len(processed) :
          ProcessedEvents[i] = ScrollUp /\ ProcessedEvents[j] = ScrollDown
    /\ tags[1] # tags0[1]
    /\ tags[2] = tags0[2]

(***************************************************************************)
(* C14: a call of run before setup has registered the reader panics,       *)
(* whether events are pending or not, and changes no distance; a call of   *)
(* run after setup does not panic.                                         *)
(***************************************************************************)
C14_PanicOnlyWithoutReader ==
    panicked => (event_reader = None /\ tags = tags0 /\ processed = <<>>)

C14_RunWithoutReader ==
    [][/\ (event_reader = None /\ run) =>
              (panicked' /\ UNCHANGED <<tags, processed, event_reader>>)
       /\ event_reader = None => UNCHANGED <<tags, processed>>
       /\ (event_reader # None /\ ~panicked) => (event_reader' # None /\ ~panicked')]_vars

C14_FatalBeforeSetup == []C14_PanicOnlyWithoutReader /\ C14_RunWithoutReader

C14_Witness ==
    /\ panicked
    /\ Len(channel) >= 2
    /\ \E i \in 1..Len(channel) : Scales(channel[i])
    /\ Orbiting # {}
    /\ tags = tags0

(***************************************************************************)
(* C15: every call of builder, in whatever state it is made, leaves the    *)
(* policy not dirty and a surface format cached, and leaves the last       *)
(* observed dimensions as they were.                                       *)
(***************************************************************************)
BuildStep ==
    \/ \E fmt \in Format : builder(fmt)
    \/ builds' # builds
    \/ queries' # queries

C15_BuilderSettles ==
    [][BuildStep =>
          /\ dirty' = FALSE
          /\ surface_format' # None
          /\ last_dimensions' = last_dimensions]_vars

C15_Witness ==
    /\ builds >= 2
    /\ Len(checks) >= 2
    /\ LastCheck.read # LastCheck.last /\ LastCheck.read # None
    /\ ~dirty /\ surface_format # None /\ last_dimensions = LastCheck.read

(***************************************************************************)
(* C16: distances that are greater than 0 initially stay greater than 0    *)
(* whatever events are published and handled, down to the smallest         *)
(* subnormals and up to overflow, although run never clamps them.          *)
(***************************************************************************)
Positive(x) == ~x.neg /\ (x.m > 0 \/ x.e = InfExp)

C16_StaysPositive ==
    (\A en \in DOMAIN tags0 : Positive(tags0[en])) =>
        (\A en \in DOMAIN tags : Positive(tags[en]))

C16_Witness ==
    /\ \A en \in DOMAIN tags0 : Positive(tags0[en])
    /\ \E a, b \in Orbiting :
          /\ tags[a].e = InfExp /\ tags0[a].e # InfExp
          /\ tags[b] = MinPositive
    /\ \E i \in 1..Len(processed) : ProcessedEvents[i] = ScrollUp

(***************************************************************************)
(* C17: no rebuild check takes the policy from dirty to not dirty, only    *)
(* builder does; so of two consecutive checks that both read the last      *)
(* observed dimensions while the policy is dirty, with no builder call     *)
(* between them, both report rebuild.                                      *)
(***************************************************************************)
UnchangedWhileDirty(i) == checks[i].read = checks[i].last /\ checks[i].was_dirty

C17_BothReport ==
    \A i \in 1..Len(checks) - 1 :
        (UnchangedWhileDirty(i) /\ UnchangedWhileDirty(i + 1)) =>
            (checks[i].ret /\ checks[i + 1].ret)

C17_CheckKeepsDirty ==
    [][/\ (dirty /\ ~dirty') => (checks' = checks /\ \E fmt \in Format : builder(fmt))
       /\ (\E d \in TryFetchDimensions : rebuild(d)) => (dirty => dirty')]_vars

C17_OnlyBuilderSettles == []C17_BothReport /\ C17_CheckKeepsDirty

C17_Witness ==
    /\ Len(checks) >= 3
    /\ UnchangedWhileDirty(Len(checks) - 1) /\ checks[Len(checks) - 1].ret
    /\ UnchangedWhileDirty(Len(checks)) /\ LastCheck.ret
    /\ LastCheck.read # None
    /\ dirty

(***************************************************************************)
(* C18: unavailable dimensions are compared like any other value. A check  *)
(* reports rebuild only if it read the last observed dimensions; a check   *)
(* that reads unavailable dimensions while none were observed last is      *)
(* unchanged, so it reports rebuild exactly when the policy is dirty and   *)
(* leaves the policy as dirty as it was; the first check of a new policy,  *)
(* if it reads unavailable dimensions, reports rebuild.                    *)
(***************************************************************************)
BothUnavailable(i) == checks[i].read = None /\ checks[i].last = None

C18_ComparedAsValue ==
    \A i \in 1..Len(checks) :
        /\ checks[i].ret => checks[i].read = checks[i].last
        /\ BothUnavailable(i) => checks[i].ret = checks[i].was_dirty
        /\ (BothUnavailable(i) /\ i < Len(checks)) =>
               (checks[i + 1].last = None /\ (checks[i + 1].was_dirty => checks[i].was_dirty))

C18_FirstCheck ==
    [][(builds = 0 /\ Len(checks) = 0 /\ ~dropped /\ rebuild(None)) =>
          (LastCheck'.ret /\ dirty' /\ last_dimensions' = None)]_vars

C18_UnavailableIsAValue == []C18_ComparedAsValue /\ C18_FirstCheck

C18_Witness ==
    /\ ~dropped
    /\ Len(checks) >= 3
    /\ BothUnavailable(1) /\ checks[1].was_dirty /\ checks[1].ret
    /\ BothUnavailable(2) /\ checks[2].was_dirty /\ checks[2].ret
    /\ BothUnavailable(3) /\ ~checks[3].was_dirty /\ ~checks[3].ret

(***************************************************************************)
(* C19: after every rebuild check, whether it saw a change or not, the     *)
(* last observed dimensions are the dimensions that check read, available  *)
(* or not; nothing but a check changes them, and before the first check    *)
(* none are observed.                                                      *)
(***************************************************************************)
C19_LastIsLastRead ==
    /\ Len(checks) >= 1 => last_dimensions = LastCheck.read
    /\ (Len(checks) = 0 /\ ~dropped) => last_dimensions = None
    /\ \A i \in 2..Len(checks) : checks[i].last = checks[i - 1].read

C19_OnlyChecksObserve ==
    [][/\ \A d \in TryFetchDimensions : rebuild(d) => last_dimensions' = d
       /\ last_dimensions' # last_dimensions =>
              (CheckStep /\ last_dimensions' = LastCheck'.read)
       /\ (\E fmt \in Format : builder(fmt)) => last_dimensions' = last_dimensions]_vars

C19_TracksRead == []C19_LastIsLastRead /\ C19_OnlyChecksObserve

C19_Witness ==
    /\ Len(checks) >= 4
    /\ builds >= 2
    /\ \E i, j, k \in 2..Len(checks) :
          /\ checks[i].read # checks[i].last /\ checks[i].read # None /\ checks[i].last # None
          /\ checks[j].read = checks[j].last /\ checks[j].read # None
          /\ checks[k].read = None /\ checks[k].last # None
    /\ ~pending /\ LastCheck.ret
    /\ last_dimensions = LastCheck.read

(***************************************************************************)
(* The scroll-up and scroll-down events handled so far, counted, and the   *)
(* same events put in the two sorted orders.                               *)
(***************************************************************************)
IsScrollUp(event) == event = ScrollUp

IsScrollDown(event) == event = ScrollDown

Ups == Len(SelectSeq(ProcessedEvents, IsScrollUp))

Downs == Len(SelectSeq(ProcessedEvents, IsScrollDown))

UpsThenDowns == [i \in 1..Ups + Downs |-> IF i <= Ups THEN ScrollUp ELSE ScrollDown]

DownsThenUps == [i \in 1..Ups + Downs |-> IF i <= Downs THEN ScrollDown ELSE ScrollUp]

====
